---------------------------- MODULE Spec2Model ----------------------------
(***************************************************************************)
(* A model of the weather service: the HTTP handlers of app.py and         *)
(* api/index.py, WeatherService (coordinate lookup, normalisation of the   *)
(* current reading and of the daily forecast, the terminal displays) and   *)
(* WeatherCodeMapper.                                                      *)
(*                                                                         *)
(* Encoding of Python values:                                              *)
(*   - a str whose characters the code inspects (strip, len, lower, title, *)
(*     int, substring search) is a sequence of one-character strings;      *)
(*     any other str is an opaque TLA+ string;                             *)
(*   - a dict is a function whose domain is its set of keys;               *)
(*   - a list is the one-field record [items |-> <<...>>], so that the     *)
(*     isinstance(x, list) test of the displays can be evaluated;          *)
(*   - None is the integer NoneValue, which no upstream reading takes.     *)
(***************************************************************************)
EXTENDS Integers, Sequences, FiniteSets, TLC

VARIABLES
    pc,          \* position of the request: idle, resolving, fetching, done
    entry,       \* the entry point the request came through
    city,        \* the handler's local `city` (after validation / fallback)
    days,        \* the handler's local `days`
    mode,        \* the handler's local `mode`
    geoCalls,    \* _make_request calls made on geo_url in this request
    wxCalls,     \* _make_request calls made on weather_url in this request
    request,     \* what the caller passed: request.args, or the arguments
    geo,         \* what _make_request returned for the geocoding endpoint
    coords,      \* the value get_coordinates returned
    raw,         \* what _make_request returned for the forecast endpoint
    locals,      \* weather_code, description, condition of the normaliser
    is_night,    \* the local is_night of display_current_weather
    result,      \* the value the WeatherService method returned
    response,    \* the HTTP response: [status, body]
    sys_stdout,  \* the process-wide sys.stdout: "console" or "buffer"
    old_stdout,  \* the local old_stdout of get_ascii_output
    buffer,      \* what has been printed into the handler's io.StringIO
    console,     \* what has been printed to the real standard output
    threads,     \* the /ascii requests served at the same time, each with
                 \* its position, its locals and its own io.StringIO
    bar_temp,    \* the argument `temp` of a call of create_temp_bar
    temp_bar,    \* the value that call returned
    graph_call,  \* the arguments of a call of create_line_graph
    line_graph   \* the value that call returned

vars == <<pc, entry, city, days, mode, request, geoCalls, wxCalls, geo, coords,
          raw, locals, is_night, result, response, sys_stdout, old_stdout,
          buffer, console, threads, bar_temp, temp_bar, graph_call, line_graph>>

\* the state of the single request
requestVars == <<pc, entry, city, days, mode, request, geoCalls, wxCalls, geo,
                 coords, raw, locals, is_night, result, response, old_stdout,
                 buffer>>

\* the state of the calls of the two rendering functions on their own
callVars == <<bar_temp, temp_bar, graph_call, line_graph>>

---------------------------------------------------------------------------
(* Bounds of the model *)

\* the weather codes tried are -1 .. MaxCode (the table's last code is 99)
MaxCode == 100
\* the upstream daily arrays hold 0 .. MaxAvail days
MaxAvail == 3
\* the upstream body leaves out at most MaxMissing of the requested fields
MaxMissing == 1

---------------------------------------------------------------------------
(* Python values *)

NoneValue == 0 - 1000000

List(s) == [items |-> s]

isinstance_list(v) == "items" \in DOMAIN v

\* d.get(k, default)
Get(d, k, default) == IF k \in DOMAIN d THEN d[k] ELSE default

\* a dict literal {k1: v1, k2: v2, ...}, given as the sequence of its
\* <<key, value>> pairs: a key written twice keeps the value written last
DictLiteral(pairs) ==
    [k \in {pairs[i][1] : i \in DOMAIN pairs} |->
        LET last == CHOOSE i \in DOMAIN pairs :
                        /\ pairs[i][1] = k
                        /\ \A j \in DOMAIN pairs : pairs[j][1] = k => j <= i
        IN  pairs[last][2]]

UpperOf ==
    [a |-> "A", b |-> "B", c |-> "C", d |-> "D", e |-> "E", f |-> "F", 
     g |-> "G", h |-> "H", i |-> "I", j |-> "J", k |-> "K", l |-> "L", 
     m |-> "M", n |-> "N", o |-> "O", p |-> "P", q |-> "Q", r |-> "R", 
     s |-> "S", t |-> "T", u |-> "U", v |-> "V", w |-> "W", x |-> "X", 
     y |-> "Y", z |-> "Z"]

LowerOf ==
    [A |-> "a", B |-> "b", C |-> "c", D |-> "d", E |-> "e", F |-> "f", 
     G |-> "g", H |-> "h", I |-> "i", J |-> "j", K |-> "k", L |-> "l", 
     M |-> "m", N |-> "n", O |-> "o", P |-> "p", Q |-> "q", R |-> "r", 
     S |-> "s", T |-> "t", U |-> "u", V |-> "v", W |-> "w", X |-> "x", 
     Y |-> "y", Z |-> "z"]

IsLetter(c) == c \in DOMAIN UpperOf \/ c \in DOMAIN LowerOf

ToLower(c) == IF c \in DOMAIN LowerOf THEN LowerOf[c] ELSE c

ToUpper(c) == IF c \in DOMAIN UpperOf THEN UpperOf[c] ELSE c

\* str.lower()
Lower(s) == [i \in 1..Len(s) |-> ToLower(s[i])]

\* str.title(): a letter is upper-cased when it follows a non-letter (or
\* starts the string) and lower-cased otherwise
Title(s) ==
    [i \in 1..Len(s) |->
        IF i = 1 \/ ~IsLetter(s[i-1]) THEN ToUpper(s[i]) ELSE ToLower(s[i])]

\* the `key in condition` substring test
Contains(sub, s) ==
    \E i \in 0..(Len(s) - Len(sub)) : SubSeq(s, i + 1, i + Len(sub)) = sub

RECURSIVE LStrip(_)
LStrip(s) == IF s # <<>> /\ Head(s) = " " THEN LStrip(Tail(s)) ELSE s

RECURSIVE RStrip(_)
RStrip(s) ==
    IF s # <<>> /\ s[Len(s)] = " " THEN RStrip(SubSeq(s, 1, Len(s) - 1)) ELSE s

\* str.strip()
Strip(s) == LStrip(RStrip(s))

DigitValue ==
    [c \in {"0","1","2","3","4","5","6","7","8","9"} |->
        CASE c = "0" -> 0 [] c = "1" -> 1 [] c = "2" -> 2 [] c = "3" -> 3
          [] c = "4" -> 4 [] c = "5" -> 5 [] c = "6" -> 6 [] c = "7" -> 7
          [] c = "8" -> 8 [] c = "9" -> 9]

RECURSIVE DigitsValue(_)
DigitsValue(s) ==
    IF s = <<>> THEN 0
    ELSE 10 * DigitsValue(SubSeq(s, 1, Len(s) - 1)) + DigitValue[s[Len(s)]]

IsDigits(s) == s # <<>> /\ \A i \in 1..Len(s) : s[i] \in DOMAIN DigitValue

\* int(s) of a str: surrounding blanks and one sign are accepted; anything
\* else raises ValueError, reported here as ok = FALSE
ParseInt(s) ==
    LET t == Strip(s)
        signed == t # <<>> /\ Head(t) \in {"-", "+"}
        body == IF signed THEN Tail(t) ELSE t
    IN  IF ~IsDigits(body) THEN [ok |-> FALSE, value |-> 0]
        ELSE [ok |-> TRUE,
              value |-> IF signed /\ Head(t) = "-" THEN 0 - DigitsValue(body)
                        ELSE DigitsValue(body)]

---------------------------------------------------------------------------
(* services/weather_models.py *)

\* WeatherArt: the seven glyphs, each named by its attribute
WeatherArt ==
    [SUNNY |-> "WeatherArt.SUNNY", CLOUDY |-> "WeatherArt.CLOUDY",
     RAINY |-> "WeatherArt.RAINY", STORMY |-> "WeatherArt.STORMY",
     SNOWY |-> "WeatherArt.SNOWY", FOGGY |-> "WeatherArt.FOGGY",
     NIGHT |-> "WeatherArt.NIGHT"]

\* WeatherCodeMapper.WMO_CODES as <<code, description, condition>> rows
WMO_ROWS ==
    <<
      <<0, <<"C","l","e","a","r"," ","s","k","y">>,
          <<"c","l","e","a","r">>>>,
      <<1, <<"M","a","i","n","l","y"," ","c","l","e","a","r">>,
          <<"c","l","e","a","r">>>>,
      <<2, <<"P","a","r","t","l","y"," ","c","l","o","u","d","y">>,
          <<"c","l","o","u","d","y">>>>,
      <<3, <<"O","v","e","r","c","a","s","t">>,
          <<"c","l","o","u","d","y">>>>,
      <<45, <<"F","o","g">>,
          <<"f","o","g">>>>,
      <<48, <<"D","e","p","o","s","i","t","i","n","g"," ","r","i","m","e"," ","f","o","g">>,
          <<"f","o","g">>>>,
      <<51, <<"L","i","g","h","t"," ","d","r","i","z","z","l","e">>,
          <<"r","a","i","n">>>>,
      <<53, <<"M","o","d","e","r","a","t","e"," ","d","r","i","z","z","l","e">>,
          <<"r","a","i","n">>>>,
      <<55, <<"D","e","n","s","e"," ","d","r","i","z","z","l","e">>,
          <<"r","a","i","n">>>>,
      <<56, <<"L","i","g","h","t"," ","f","r","e","e","z","i","n","g"," ","d","r","i","z","z","l","e">>,
          <<"r","a","i","n">>>>,
      <<57, <<"D","e","n","s","e"," ","f","r","e","e","z","i","n","g"," ","d","r","i","z","z","l","e">>,
          <<"r","a","i","n">>>>,
      <<61, <<"S","l","i","g","h","t"," ","r","a","i","n">>,
          <<"r","a","i","n">>>>,
      <<63, <<"M","o","d","e","r","a","t","e"," ","r","a","i","n">>,
          <<"r","a","i","n">>>>,
      <<65, <<"H","e","a","v","y"," ","r","a","i","n">>,
          <<"r","a","i","n">>>>,
      <<66, <<"L","i","g","h","t"," ","f","r","e","e","z","i","n","g"," ","r","a","i","n">>,
          <<"r","a","i","n">>>>,
      <<67, <<"H","e","a","v","y"," ","f","r","e","e","z","i","n","g"," ","r","a","i","n">>,
          <<"r","a","i","n">>>>,
      <<71, <<"S","l","i","g","h","t"," ","s","n","o","w"," ","f","a","l","l">>,
          <<"s","n","o","w">>>>,
      <<73, <<"M","o","d","e","r","a","t","e"," ","s","n","o","w"," ","f","a","l","l">>,
          <<"s","n","o","w">>>>,
      <<75, <<"H","e","a","v","y"," ","s","n","o","w"," ","f","a","l","l">>,
          <<"s","n","o","w">>>>,
      <<77, <<"S","n","o","w"," ","g","r","a","i","n","s">>,
          <<"s","n","o","w">>>>,
      <<80, <<"S","l","i","g","h","t"," ","r","a","i","n"," ","s","h","o","w","e","r","s">>,
          <<"r","a","i","n">>>>,
      <<81, <<"M","o","d","e","r","a","t","e"," ","r","a","i","n"," ","s","h","o","w","e","r","s">>,
          <<"r","a","i","n">>>>,
      <<82, <<"V","i","o","l","e","n","t"," ","r","a","i","n"," ","s","h","o","w","e","r","s">>,
          <<"r","a","i","n">>>>,
      <<85, <<"S","l","i","g","h","t"," ","s","n","o","w"," ","s","h","o","w","e","r","s">>,
          <<"s","n","o","w">>>>,
      <<86, <<"H","e","a","v","y"," ","s","n","o","w"," ","s","h","o","w","e","r","s">>,
          <<"s","n","o","w">>>>,
      <<95, <<"T","h","u","n","d","e","r","s","t","o","r","m">>,
          <<"s","t","o","r","m">>>>,
      <<96, <<"T","h","u","n","d","e","r","s","t","o","r","m"," ","w","i","t","h"," ","s","l","i","g","h","t"," ","h","a","i","l">>,
          <<"s","t","o","r","m">>>>,
      <<99, <<"T","h","u","n","d","e","r","s","t","o","r","m"," ","w","i","t","h"," ","h","e","a","v","y"," ","h","a","i","l">>,
          <<"s","t","o","r","m">>>>
    >>

WMO_CODES ==
    [c \in {WMO_ROWS[i][1] : i \in DOMAIN WMO_ROWS} |->
        LET row == CHOOSE i \in DOMAIN WMO_ROWS : WMO_ROWS[i][1] = c
        IN  <<WMO_ROWS[row][2], WMO_ROWS[row][3]>>]

WMO_DEFAULT == << <<"U","n","k","n","o","w","n">>, <<"u","n","k","n","o","w","n">> >>

get_description(code) == Get(WMO_CODES, code, WMO_DEFAULT)[1]

\* get_condition reading the first member of the pair
get_condition_first_member(code) == Get(WMO_CODES, code, WMO_DEFAULT)[1]

get_condition(code) == Get(WMO_CODES, code, WMO_DEFAULT)[2]

---------------------------------------------------------------------------
(* The collaborators: what requests.get can produce for one call *)

\* the three failures _make_request catches, and a body that parsed
Failed(kind) == [kind |-> kind]

Body(json) == [kind |-> "ok", json |-> json]

TransportFailures ==
    {Failed("timeout"), Failed("request_exception"), Failed("invalid_json")}

\* WeatherService._make_request: None (is_none) on each caught failure
_make_request(outcome) ==
    IF outcome.kind = "ok" THEN [is_none |-> FALSE, value |-> outcome.json]
    ELSE [is_none |-> TRUE]

\* `not data` of an Optional[Dict]
NotData(data) == data.is_none \/ DOMAIN data.value = {}

EmptyDict == <<>>

TheLocation ==
    [latitude |-> 48, longitude |-> 2, name |-> "Paris",
     country |-> "France", admin1 |-> "Ile-de-France"]

Without(d, K) == [k \in DOMAIN d \ K |-> d[k]]

\* bodies of the geocoding endpoint: empty, no match (with and without a
\* results key), one match, a match that lacks its country, and a match
\* that lacks its latitude
GeoBodies ==
    {EmptyDict,
     [generationtime_ms |-> 1],
     [results |-> List(<<>>)],
     [results |-> List(<<TheLocation>>)],
     [results |-> List(<<Without(TheLocation, {"latitude"})>>)]}

GeoOutcomes == TransportFailures \cup {Body(b) : b \in GeoBodies}

AtMostMissing(keys) == {K \in SUBSET keys : Cardinality(K) <= MaxMissing}

CodeRange == (0 - 1)..MaxCode

Precipitations == {0, 2}

\* the "current" object with every requested field present
FullCurrent(code, precip) ==
    [time |-> "2024-06-01T12:00", temperature_2m |-> 21,
     relative_humidity_2m |-> 60, apparent_temperature |-> 19,
     precipitation |-> precip, weather_code |-> code,
     surface_pressure |-> 1013, wind_speed_10m |-> 5,
     wind_direction_10m |-> 180]

CurrentKeys == DOMAIN FullCurrent(0, 0)

CurrentBodies ==
    {[current |-> Without(FullCurrent(c, p), K)] :
        c \in CodeRange, p \in Precipitations, K \in AtMostMissing(CurrentKeys)}

\* an ISO date of the daily "time" array, by its parts
IsoDate(i) == [year |-> 2024, month |-> 6, day |-> i]

DayWinds == {0, 5}

\* a day is dry and clear (code 0) or wet with slight rain (code 61), and
\* calm or windy
DayChoices ==
    {[code |-> IF p > 0 THEN 61 ELSE 0, precip |-> p, wind |-> w] :
        p \in Precipitations, w \in DayWinds}

\* the "daily" object for the days ds: parallel arrays, one cell per day
FullDaily(ds) ==
    [time |-> List([i \in 1..Len(ds) |-> IsoDate(i)]),
     temperature_2m_max |-> List([i \in 1..Len(ds) |-> 20 + i]),
     temperature_2m_min |-> List([i \in 1..Len(ds) |-> 10 + i]),
     weather_code |-> List([i \in 1..Len(ds) |-> ds[i].code]),
     precipitation_sum |-> List([i \in 1..Len(ds) |-> ds[i].precip]),
     wind_speed_10m_max |-> List([i \in 1..Len(ds) |-> ds[i].wind]),
     wind_direction_10m_dominant |-> List([i \in 1..Len(ds) |-> 180])]

DailyKeys == DOMAIN FullDaily(<<>>)

DaySeqs == UNION {[1..a -> DayChoices] : a \in 0..MaxAvail}

DailyBodies ==
    {[daily |-> Without(FullDaily(ds), K)] :
        ds \in DaySeqs, K \in AtMostMissing(DailyKeys)}

\* bodies without the object asked for
OtherBodies == {EmptyDict, [latitude |-> 48, longitude |-> 2]}

CurrentOutcomes ==
    TransportFailures \cup {Body(b) : b \in OtherBodies \cup CurrentBodies}

DailyOutcomes ==
    TransportFailures \cup {Body(b) : b \in OtherBodies \cup DailyBodies}

WxOutcomes == CurrentOutcomes \cup DailyOutcomes

---------------------------------------------------------------------------
(* api/services/weather_service.py *)

\* what a call produced: a returned value, or an exception that escaped
Returned(v) == [raised |-> FALSE, value |-> v]

Raised(exc) == [raised |-> TRUE, exc |-> exc]

Min(a, b) == IF a <= b THEN a ELSE b

\* get_coordinates up to its request: the falsy / blank city test
get_coordinates_rejects(c) == c = <<>> \/ Strip(c) = <<>>

\* get_coordinates from the moment _make_request returned `data`
get_coordinates(c, data) ==
    LET name == Strip(c) IN
    IF NotData(data)
    THEN Returned([error |-> <<"Failed to fetch coordinates for ", name>>])
    ELSE IF \/ "results" \notin DOMAIN data.value
            \/ Len(data.value.results.items) = 0
    THEN Returned([error |-> <<"City '", name, "' not found">>])
    ELSE LET location == data.value.results.items[1] IN
         IF {"latitude", "longitude", "name"} \subseteq DOMAIN location
         THEN Returned([lat |-> location.latitude,
                        lon |-> location.longitude,
                        name |-> location.name,
                        country |-> Get(location, "country", "Unknown"),
                        admin1 |-> Get(location, "admin1", "")])
         ELSE Raised("KeyError")

\* get_weather_art: the night test, then the first key of art_map, in its
\* order, that occurs in the lower-cased condition
art_map ==
    << <<<<"c","l","e","a","r">>, WeatherArt.SUNNY>>, <<<<"s","u","n","n","y">>, WeatherArt.SUNNY>>,
       <<<<"r","a","i","n">>, WeatherArt.RAINY>>, <<<<"s","t","o","r","m">>, WeatherArt.STORMY>>,
       <<<<"s","n","o","w">>, WeatherArt.SNOWY>>, <<<<"f","o","g">>, WeatherArt.FOGGY>>,
       <<<<"c","l","o","u","d","y">>, WeatherArt.CLOUDY>>, <<<<"o","v","e","r","c","a","s","t">>, WeatherArt.CLOUDY>> >>

\* get_weather_art without the clear / sunny condition on the night test
get_weather_art_any_night(condition, night) ==
    IF night THEN WeatherArt.NIGHT
    ELSE LET cond == Lower(condition)
             hits == {i \in DOMAIN art_map : Contains(art_map[i][1], cond)}
         IN  IF hits = {} THEN WeatherArt.CLOUDY
             ELSE art_map[CHOOSE i \in hits : \A j \in hits : i <= j][2]

get_weather_art(condition, night) ==
    IF night /\ Lower(condition) \in {<<"c","l","e","a","r">>, <<"s","u","n","n","y">>}
    THEN WeatherArt.NIGHT
    ELSE LET cond == Lower(condition)
             hits == {i \in DOMAIN art_map : Contains(art_map[i][1], cond)}
         IN  IF hits = {} THEN WeatherArt.CLOUDY
             ELSE art_map[CHOOSE i \in hits : \A j \in hits : i <= j][2]

\* the locals weather_code, description and condition of get_current_weather
current_locals(current) ==
    LET weather_code == Get(current, "weather_code", 0)
    IN  [weather_code |-> weather_code,
         description |-> get_description(weather_code),
         condition |-> get_condition(weather_code)]

\* the "main" object with temp read from apparent_temperature
legacy_main_feels_like(current) ==
    [temp |-> Get(current, "apparent_temperature", NoneValue),
     feels_like |-> Get(current, "apparent_temperature", NoneValue),
     humidity |-> Get(current, "relative_humidity_2m", NoneValue),
     pressure |-> Get(current, "surface_pressure", NoneValue)]

\* the "main" object of the legacy view
legacy_main(current) ==
    [temp |-> Get(current, "temperature_2m", NoneValue),
     feels_like |-> Get(current, "apparent_temperature", NoneValue),
     humidity |-> Get(current, "relative_humidity_2m", NoneValue),
     pressure |-> Get(current, "surface_pressure", NoneValue)]

\* get_current_weather from the moment _make_request returned `data`
get_current_weather(co, data) ==
    IF NotData(data) \/ "current" \notin DOMAIN data.value
    THEN Returned([error |-> <<"Failed to fetch weather data for ", co.name>>])
    ELSE
    LET current == data.value.current
        weather_code == current_locals(current).weather_code
        description == current_locals(current).description
        condition == current_locals(current).condition
    IN  Returned(DictLiteral(<<
            <<"location", [name |-> co.name, country |-> co.country,
                           coordinates |-> [lat |-> co.lat, lon |-> co.lon]]>>,
            <<"current",
                [temperature |-> Get(current, "temperature_2m", NoneValue),
                 feels_like |-> Get(current, "apparent_temperature", NoneValue),
                 humidity |-> Get(current, "relative_humidity_2m", NoneValue),
                 pressure |-> Get(current, "surface_pressure", NoneValue),
                 wind_speed |-> Get(current, "wind_speed_10m", NoneValue),
                 wind_direction |-> Get(current, "wind_direction_10m", NoneValue),
                 precipitation |-> Get(current, "precipitation", 0)]>>,
            <<"weather", [code |-> weather_code, description |-> description,
                          condition |-> condition]>>,
            <<"timestamp", Get(current, "time", NoneValue)>>,
            <<"name", co.name>>,
            <<"main", legacy_main(current)>>,
            <<"weather", List(<<[main |-> Title(condition),
                                 description |-> description]>>)>>,
            <<"wind", [speed |-> Get(current, "wind_speed_10m", NoneValue),
                       deg |-> Get(current, "wind_direction_10m", NoneValue)]>>
        >>))

\* the days test of get_forecast, made after get_coordinates returned
days_out_of_range(d) == d < 1 \/ d > 7

\* datetime.fromisoformat(...).timestamp(): seconds since the epoch of the
\* date's midnight (19875 days separate 1970-01-01 and 2024-06-01)
timestamp(date) == (19875 + date.day - 1) * 86400

\* the locals weather_code, description and condition of the loop of
\* get_forecast, for the 1-based day index i
forecast_locals(daily, i) ==
    LET weather_code == daily.weather_code.items[i]
    IN  [weather_code |-> weather_code,
         description |-> get_description(weather_code),
         condition |-> get_condition(weather_code)]

\* the loop running over every upstream day: len(daily["time"])
forecast_count_unclipped(d, available) == available

\* the number of turns of the loop: min(days, len(daily["time"]))
forecast_count(d, available) == Min(d, available)

\* one forecast_item of get_forecast, for the 1-based day index i
forecast_item(daily, i) ==
    LET weather_code == forecast_locals(daily, i).weather_code
        description == forecast_locals(daily, i).description
        condition == forecast_locals(daily, i).condition
    IN  DictLiteral(<<
            <<"date", daily.time.items[i]>>,
            <<"temperature", [max |-> daily.temperature_2m_max.items[i],
                              min |-> daily.temperature_2m_min.items[i]]>>,
            <<"weather", [code |-> weather_code, description |-> description,
                          condition |-> condition]>>,
            <<"precipitation", daily.precipitation_sum.items[i]>>,
            <<"wind", [speed |-> daily.wind_speed_10m_max.items[i],
                       direction |-> daily.wind_direction_10m_dominant.items[i]]>>,
            <<"dt", timestamp(daily.time.items[i])>>,
            <<"main", [temp |-> daily.temperature_2m_max.items[i],
                       temp_min |-> daily.temperature_2m_min.items[i],
                       temp_max |-> daily.temperature_2m_max.items[i],
                       humidity |-> 65]>>,
            <<"weather", List(<<[main |-> Title(condition),
                                 description |-> description]>>)>>,
            <<"wind", [speed |-> daily.wind_speed_10m_max.items[i]]>>
        >>)

\* get_forecast from the moment _make_request returned `data`; a key of
\* `daily` that is read and absent raises KeyError
get_forecast(co, d, data) ==
    IF NotData(data) \/ "daily" \notin DOMAIN data.value
    THEN Returned([error |-> <<"Failed to fetch forecast data for ", co.name>>])
    ELSE
    LET daily == data.value.daily IN
    IF "time" \notin DOMAIN daily THEN Raised("KeyError")
    ELSE
    LET n == forecast_count(d, Len(daily.time.items)) IN
    IF n > 0 /\ ~(DailyKeys \subseteq DOMAIN daily) THEN Raised("KeyError")
    ELSE
    LET forecast_list == List([i \in 1..n |-> forecast_item(daily, i)])
    IN  Returned([location |-> [name |-> co.name, country |-> co.country],
                  forecast |-> forecast_list,
                  list |-> forecast_list,
                  city |-> [name |-> co.name]])

\* the last weather_code, description and condition the normaliser
\* computed: those of get_current_weather, or those of the last turn its
\* loop in get_forecast began (a KeyError on another array ends the first)
locals_after(forecast, d, data, before) ==
    IF NotData(data) THEN before
    ELSE IF ~forecast
    THEN (IF "current" \in DOMAIN data.value
          THEN current_locals(data.value.current) ELSE before)
    ELSE IF /\ "daily" \in DOMAIN data.value
            /\ {"time", "weather_code"} \subseteq DOMAIN data.value.daily
            /\ forecast_count(d, Len(data.value.daily.time.items)) > 0
    THEN forecast_locals(data.value.daily,
            IF DailyKeys \subseteq DOMAIN data.value.daily
            THEN forecast_count(d, Len(data.value.daily.time.items))
            ELSE 1)
    ELSE before

icons ==
    << <<<<"c","l","e","a","r">>, "[SUN]">>, <<<<"s","u","n","n","y">>, "[SUN]">>, <<<<"r","a","i","n">>, "[RAIN]">>,
       <<<<"s","t","o","r","m">>, "[STORM]">>, <<<<"s","n","o","w">>, "[SNOW]">>, <<<<"f","o","g">>, "[FOG]">>,
       <<<<"c","l","o","u","d","y">>, "[CLOUD]">>, <<<<"o","v","e","r","c","a","s","t">>, "[CLOUD]">> >>

get_mini_weather_art(condition) ==
    LET cond == Lower(condition)
        hits == {i \in DOMAIN icons : Contains(icons[i][1], cond)}
    IN  IF hits = {} THEN "[CLOUD]"
        ELSE icons[CHOOSE i \in hits : \A j \in hits : i <= j][2]

bar_length == 50

\* the position without its two clamping branches
temp_bar_pos_unclamped(temp, min_range, max_range) ==
    ((temp - min_range) * (bar_length - 1)) \div (max_range - min_range)

\* create_temp_bar with the default range, for a whole-degree temp: the
\* cell index of the marker (int() truncates; the quotient is not negative)
temp_bar_pos(temp, min_range, max_range) ==
    IF temp < min_range THEN 0
    ELSE IF temp > max_range THEN bar_length - 1
    ELSE ((temp - min_range) * (bar_length - 1)) \div (max_range - min_range)

\* create_temp_bar: comparing None with a number raises TypeError
create_temp_bar(temp) ==
    IF temp = NoneValue THEN Raised("TypeError")
    ELSE
    LET min_range == 0 - 20
        max_range == 50
        pos == temp_bar_pos(temp, min_range, max_range)
        bar_chars == [k \in 1..bar_length |->
                        LET i == k - 1 IN
                        IF i = pos THEN "marker"
                        ELSE IF i < pos
                        THEN (IF temp < 0 THEN "dense"
                              ELSE IF temp < 20 THEN "medium" ELSE "light")
                        ELSE "."]
    IN  Returned([kind |-> "temp_bar", bar |-> bar_chars, temp |-> temp])

\* what a display routine did: the lines it printed, in order, and whether
\* an exception then escaped it
Printed(lines) == [lines |-> lines, raised |-> FALSE]

PrintedThenRaised(lines, exc) == [lines |-> lines, raised |-> TRUE, exc |-> exc]

\* display_current_weather from the moment get_current_weather returned
\* `data`, with the is_night it computed from the clock
display_current_weather(data, night) ==
    IF "error" \in DOMAIN data
    THEN Printed(<<[kind |-> "ERROR", error |-> data.error]>>)
    ELSE
    LET location == Get(data, "location", EmptyDict)
        current == Get(data, "current", Get(data, "main", EmptyDict))
        weather == Get(data, "weather", List(<<EmptyDict>>))
        weather_info == IF isinstance_list(weather) /\ weather.items # <<>>
                        THEN weather.items[1] ELSE weather
        name == Get(location, "name", Get(data, "name", "Unknown"))
        country == Get(location, "country", "")
        temp == Get(current, "temperature", Get(current, "temp", NoneValue))
        feels_like == Get(current, "feels_like", temp)
        humidity == Get(current, "humidity", 0)
        pressure == Get(current, "pressure", 0)
        wind_data == Get(data, "wind", EmptyDict)
        wind_speed == Get(wind_data, "speed", Get(current, "wind_speed", 0))
        condition == Get(weather_info, "description", <<"U","n","k","n","o","w","n">>)
        weather_condition == Get(weather_info, "main", condition)
        precipitation == Get(current, "precipitation", 0)
        bar == create_temp_bar(temp)
        head ==
            << [kind |-> "rule"],
               [kind |-> "WEATHER DASHBOARD", name |-> name, country |-> country],
               [kind |-> "rule"],
               [kind |-> "art", art |-> get_weather_art(weather_condition, night)],
               [kind |-> "TEMPERATURE", temp |-> temp, feels_like |-> feels_like],
               [kind |-> "CONDITION", condition |-> condition],
               [kind |-> "HUMIDITY", humidity |-> humidity],
               [kind |-> "PRESSURE", pressure |-> pressure],
               [kind |-> "WIND", wind_speed |-> wind_speed] >>
            \o (IF precipitation > 0
                THEN <<[kind |-> "PRECIPITATION", precipitation |-> precipitation]>>
                ELSE <<>>)
            \o << [kind |-> "Temperature Scale:"] >>
    IN  IF bar.raised THEN PrintedThenRaised(head, bar.exc)
        ELSE Printed(head \o <<bar.value, [kind |-> "rule"]>>)

\* min(data) and max(data)
SeqMin(data) == CHOOSE x \in {data[i] : i \in DOMAIN data} :
                    \A i \in DOMAIN data : x <= data[i]

SeqMax(data) == CHOOSE x \in {data[i] : i \in DOMAIN data} :
                    \A i \in DOMAIN data : x >= data[i]

\* f"{y_value:6.1f}" for the fraction num / den (den > 0): the value in
\* tenths, rounded to the nearest tenth, a tie going to the even tenth
format_1f(num, den) ==
    LET q == (10 * num) \div den
        r == (10 * num) % den
    IN  IF 2 * r > den \/ (2 * r = den /\ q % 2 = 1) THEN q + 1 ELSE q

\* label[:3]
first3(label) == SubSeq(label, 1, Min(3, Len(label)))

\* the height create_line_graph draws with when the caller passes none
default_height == 10

\* the test `abs(norm_val - row) < 0.5`, both sides scaled by 2 * range_val;
\* norm is norm_val * range_val
near_row(norm, row, range_val) ==
    LET twice == 2 * norm - 2 * row * range_val
    IN  (IF twice < 0 THEN 0 - twice ELSE twice) < range_val

\* TerminalGraph.create_line_graph for whole-number data and height >= 2.
\* The quotients of the code are kept as fractions: normalized[i] is
\* norm[i] / range_val and y_value is y / (height - 1).
create_line_graph(data, labels, title, height, unit) ==
    IF data = <<>> \/ Len(data) # Len(labels) \/ Len(data) < 2
    THEN [kind |-> "graph", title |-> title, insufficient |-> TRUE,
          unit |-> unit, lines |-> <<>>, x_axis |-> 0, label_line |-> <<>>]
    ELSE
    LET min_val == SeqMin(data)
        max_val == SeqMax(data)
        range_val == IF min_val # max_val THEN max_val - min_val ELSE 1
        norm == [i \in 1..Len(data) |-> (data[i] - min_val) * (height - 1)]
        cell(row, i) ==
            IF near_row(norm[i], row, range_val) THEN "marker"
            ELSE IF i > 1
            THEN (IF \/ norm[i - 1] <= row * range_val /\ row * range_val <= norm[i]
                     \/ norm[i] <= row * range_val /\ row * range_val <= norm[i - 1]
                  THEN "segment" ELSE " ")
            ELSE " "
        line(row) ==
            [row |-> row,
             y_value |-> [num |-> max_val * (height - 1) - row * range_val,
                          den |-> height - 1],
             label |-> format_1f(max_val * (height - 1) - row * range_val,
                                 height - 1),
             cells |-> [i \in 1..Len(data) |-> cell(row, i)]]
    IN  [kind |-> "graph", title |-> title, insufficient |-> FALSE,
         unit |-> unit,
         lines |-> [k \in 1..height |-> line(height - k)],
         x_axis |-> Len(data) * 2 - 1,
         label_line |-> [i \in 1..Len(labels) |-> first3(labels[i])]]

\* one call of TerminalGraph.create_line_graph in display_forecast, which
\* leaves the height to its default
graph_section(data, labels, title, unit) ==
    create_line_graph(data, labels, title, default_height, unit)

\* `any(x > 0 for x in xs)`, every value of xs taken as positive
any_positive_or_zero(xs) ==
    \E i \in DOMAIN xs : xs[i] >= 0

\* `any(x > 0 for x in xs)`
any_positive(xs) ==
    \E i \in DOMAIN xs : xs[i] > 0

\* a two-digit field of strftime
two_digits(n) ==
    LET digit == <<"0", "1", "2", "3", "4", "5", "6", "7", "8", "9">>
    IN  <<digit[(n \div 10) + 1], digit[(n % 10) + 1]>>

\* date.strftime("%m/%d")
strftime_md(date) == two_digits(date.month) \o <<"/">> \o two_digits(date.day)

\* display_forecast from the moment get_forecast returned `data`
display_forecast(data, d) ==
    IF "error" \in DOMAIN data
    THEN Printed(<<[kind |-> "ERROR", error |-> data.error]>>)
    ELSE
    LET location == Get(data, "location", EmptyDict)
        forecast_list == Get(data, "forecast", Get(data, "list", List(<<>>))).items
        name == Get(location, "name", Get(Get(data, "city", EmptyDict), "name", "Unknown"))
        country == Get(location, "country", "")
        weather_info(item) ==
            LET weather_data == Get(item, "weather", List(<<EmptyDict>>))
            IN  IF isinstance_list(weather_data) /\ weather_data.items # <<>>
                THEN weather_data.items[1] ELSE weather_data
        temp_data(item) == Get(item, "temperature", Get(item, "main", EmptyDict))
        temp_max(item) ==
            Get(temp_data(item), "max",
                Get(temp_data(item), "temp_max", Get(temp_data(item), "temp", 0)))
        temp_min(item) ==
            Get(temp_data(item), "min", Get(temp_data(item), "temp_min", temp_max(item)))
        condition(item) ==
            Get(weather_info(item), "main",
                Get(weather_info(item), "condition", <<"U","n","k","n","o","w","n">>))
        description(item) == Get(weather_info(item), "description", condition(item))
        label(item) == strftime_md(item.date)
        N == Len(forecast_list)
        temps_max == [i \in 1..N |-> temp_max(forecast_list[i])]
        temps_min == [i \in 1..N |-> temp_min(forecast_list[i])]
        precipitation == [i \in 1..N |-> Get(forecast_list[i], "precipitation", 0)]
        wind_speeds ==
            [i \in 1..N |-> Get(Get(forecast_list[i], "wind", EmptyDict), "speed", 0)]
        labels == [i \in 1..N |-> label(forecast_list[i])]
        rows == [i \in 1..N |->
                    [kind |-> "row", day |-> labels[i],
                     icon |-> get_mini_weather_art(condition(forecast_list[i])),
                     temp_max |-> temps_max[i], temp_min |-> temps_min[i],
                     description |-> description(forecast_list[i])]]
        graphs ==
            IF N >= 2
            THEN << graph_section(temps_max, labels, "Max Temperature Trend", "C"),
                    graph_section(temps_min, labels, "Min Temperature Trend", "C") >>
                 \o (IF any_positive(precipitation)
                     THEN <<graph_section(precipitation, labels,
                                          "Precipitation Trend", "mm")>>
                     ELSE <<>>)
                 \o (IF any_positive(wind_speeds)
                     THEN <<graph_section(wind_speeds, labels,
                                          "Wind Speed Trend", "m/s")>>
                     ELSE <<>>)
            ELSE <<>>
    IN  Printed(<< [kind |-> "FORECAST", days |-> d, name |-> name,
                    country |-> country],
                   [kind |-> "rule"] >>
                \o rows \o graphs \o << [kind |-> "rule"] >>)

---------------------------------------------------------------------------
(* app.py and api/index.py: the two files define the same handlers *)

Valid(v) == [ok |-> TRUE, value |-> v]

\* raise ValueError(msg)
ValueError(msg) == [ok |-> FALSE, msg |-> msg]

validate_city(c) ==
    IF c = <<>> \/ Strip(c) = <<>>
    THEN ValueError("City parameter is required and cannot be empty")
    ELSE IF Len(Strip(c)) < 2
    THEN ValueError("City name must be at least 2 characters long")
    ELSE IF Len(Strip(c)) > 100
    THEN ValueError("City name is too long")
    ELSE Valid(Strip(c))

\* validate_days: the ValueError raised for a number outside 1..7 is raised
\* inside the try, so the except clause replaces it like the one of int()
validate_days(days_str) ==
    LET parsed == ParseInt(days_str)
        inner == IF ~parsed.ok THEN ValueError("invalid literal for int()")
                 ELSE IF parsed.value < 1 \/ parsed.value > 7
                 THEN ValueError("Days must be between 1 and 7")
                 ELSE Valid(parsed.value)
    IN  IF inner.ok THEN inner
        ELSE ValueError("Days must be a valid number between 1 and 7")

\* jsonify(body), status
Response(status, body) == [status |-> status, body |-> body]

\* handle_errors, the two except clauses
invalid_input(msg) == Response(400, [error |-> <<"Invalid input: ", msg>>])

internal_error == Response(500, [error |-> <<"Internal server error">>])

\* the tail of get_current_weather and get_forecast in app.py: the status
\* given to what the service returned
service_response(svc) ==
    IF svc.raised THEN internal_error
    ELSE IF "error" \in DOMAIN svc.value THEN Response(404, svc.value)
    ELSE Response(200, svc.value)

\* the tail of get_ascii_output: buffer.getvalue(), the emptiness test and
\* the success body; an exception out of the display becomes the 500
ascii_response(c, m, disp, ascii_output) ==
    IF disp.raised THEN internal_error
    ELSE IF ascii_output = <<>> THEN internal_error
    ELSE Response(200, [city |-> c, mode |-> m, ascii |-> ascii_output])

London == <<"L","o","n","d","o","n">>

LongCity == [i \in 1..101 |-> "a"]

CityParams == {<<>>, <<"L">>, <<"P","a","r","i","s">>, <<" ","P","a","r","i","s"," ">>, LongCity}

DaysParams ==
    {<<"0">>, <<"1">>, <<"2">>, <<"3">>, <<"4">>, <<"5">>, <<"6">>, <<"7">>, <<"8">>, <<"1","0">>, <<"-","1">>,
     <<"a","b","c">>, <<" ","3"," ">>}

ModeParams == {<<"c","u","r","r","e","n","t">>, <<"f","o","r","e","c","a","s","t">>, <<"F","O","R","E","C","A","S","T">>, <<"d","a","i","l","y">>}

ParamValues == [city |-> CityParams, days |-> DaysParams, mode |-> ModeParams]

\* request.args: any subset of the endpoint's parameters, each with a value
Args(keys) ==
    UNION {{a \in [K -> CityParams \cup DaysParams \cup ModeParams] :
                \A k \in K : a[k] \in ParamValues[k]} : K \in SUBSET keys}

WeatherArgs == Args({"city"})

ForecastArgs == Args({"city", "days"})

AsciiArgs == Args({"city", "mode"})

\* the cities and day counts a direct caller of WeatherService passes
ServiceCities == {<<>>, <<" ">>, <<"L">>, <<"P","a","r","i","s">>}

ServiceDays == 0..8

Unset == [unset |-> TRUE]

IsForecast == 
    \/ entry \in {"/forecast", "get_forecast"}
    \/ entry = "/ascii" /\ mode = <<"f","o","r","e","c","a","s","t">>

---------------------------------------------------------------------------
(* The request as a state machine: it blocks at each _make_request *)

Init ==
    /\ pc = "idle"
    /\ entry = "none"
    /\ city = <<>>
    /\ days = NoneValue
    /\ mode = <<>>
    /\ geoCalls = 0
    /\ wxCalls = 0
    /\ request = Unset
    /\ geo = Unset
    /\ coords = Unset
    /\ raw = Unset
    /\ locals = Unset
    /\ is_night = FALSE
    /\ result = Unset
    /\ response = Unset
    /\ sys_stdout = "console"
    /\ old_stdout = "console"
    /\ buffer = <<>>
    /\ console = <<>>
    /\ threads = <<>>
    /\ bar_temp = NoneValue
    /\ temp_bar = Unset
    /\ graph_call = Unset
    /\ line_graph = Unset

\* display_current_weather reads the clock only when it has data to show
reads_clock(m, svc) ==
    ~svc.raised /\ m # <<"f","o","r","e","c","a","s","t">> /\ "error" \notin DOMAIN svc.value

\* is_night, for every hour datetime.now() can give
NightFlags == {hour < 6 \/ hour > 20 : hour \in 0..23}

\* the request ends with the response r, before anything was printed
Reject(r) ==
    /\ pc' = "done"
    /\ response' = r
    /\ UNCHANGED <<geoCalls, wxCalls, geo, coords, raw, locals, is_night,
                   result, sys_stdout, old_stdout, buffer, console>>

\* the display routine of the mode m from the moment the WeatherService
\* method it called produced svc
display(m, d, svc, night) ==
    IF svc.raised THEN PrintedThenRaised(<<>>, svc.exc)
    ELSE IF m = <<"f","o","r","e","c","a","s","t">> THEN display_forecast(svc.value, d)
    ELSE display_current_weather(svc.value, night)

\* the WeatherService method, entered through e with the city c, produced
\* svc; the rest of the caller runs to its end.  For /ascii this is the
\* rest of the display routine (its prints go to whatever sys.stdout is),
\* then the tail of get_ascii_output and its finally clause.
Complete(e, c, m, d, svc) ==
    /\ pc' = "done"
    /\ result' = svc
    /\ IF e \in {"get_current_weather", "get_forecast"}
       THEN UNCHANGED <<response, is_night, sys_stdout, buffer, console>>
       ELSE IF e \in {"/weather", "/forecast"}
       THEN /\ response' = service_response(svc)
            /\ UNCHANGED <<is_night, sys_stdout, buffer, console>>
       ELSE \E now \in IF reads_clock(m, svc) THEN NightFlags ELSE {is_night} :
            LET night == now
                disp == display(m, d, svc, night)
                into_buffer == IF sys_stdout = "buffer" THEN disp.lines ELSE <<>>
                into_console == IF sys_stdout = "console" THEN disp.lines ELSE <<>>
            IN  /\ is_night' = night
                /\ buffer' = buffer \o into_buffer
                /\ console' = console \o into_console
                /\ response' = ascii_response(c, m, disp, buffer \o into_buffer)
                /\ sys_stdout' = old_stdout

\* the service method is entered: get_coordinates either answers at once
\* (blank city) or issues its request to the geocoding endpoint
EnterService(e, c, m, d) ==
    IF get_coordinates_rejects(c)
    THEN /\ coords' = Returned([error |-> <<"City name cannot be empty">>])
         /\ Complete(e, c, m, d, Returned([error |-> <<"City name cannot be empty">>]))
         /\ UNCHANGED <<geoCalls, wxCalls, geo, raw, locals, old_stdout>>
    ELSE /\ pc' = "resolving"
         /\ geoCalls' = geoCalls + 1
         /\ UNCHANGED <<wxCalls, geo, coords, raw, locals, is_night, result,
                        response, old_stdout, buffer, console>>

\* GET /weather
ReceiveWeather ==
    /\ pc = "idle"
    /\ UNCHANGED <<threads, callVars>>
    /\ \E args \in WeatherArgs :
        /\ entry' = "/weather"
        /\ request' = args
        /\ UNCHANGED <<days, mode>>
        /\ LET city_param == Strip(Get(args, "city", <<>>))
               checked == IF city_param # <<>> THEN validate_city(city_param)
                          ELSE Valid(London)
           IN  IF ~checked.ok
               THEN /\ city' = city
                    /\ Reject(invalid_input(checked.msg))
               ELSE /\ city' = checked.value
                    /\ EnterService("/weather", checked.value, mode, days)
                    /\ UNCHANGED sys_stdout

\* GET /forecast
ReceiveForecast ==
    /\ pc = "idle"
    /\ UNCHANGED <<threads, callVars>>
    /\ \E args \in ForecastArgs :
        /\ entry' = "/forecast"
        /\ request' = args
        /\ UNCHANGED mode
        /\ LET city_param == Strip(Get(args, "city", <<>>))
               days_param == Get(args, "days", <<"5">>)
               checked == IF city_param # <<>> THEN validate_city(city_param)
                          ELSE Valid(London)
               counted == validate_days(days_param)
           IN  IF ~checked.ok
               THEN /\ UNCHANGED <<city, days>>
                    /\ Reject(invalid_input(checked.msg))
               ELSE IF ~counted.ok
               THEN /\ city' = checked.value
                    /\ UNCHANGED days
                    /\ Reject(invalid_input(counted.msg))
               ELSE /\ city' = checked.value
                    /\ days' = counted.value
                    /\ EnterService("/forecast", checked.value, mode, counted.value)
                    /\ UNCHANGED sys_stdout

\* GET /ascii: sys.stdout is swapped for the buffer before the display
\* routine is called, and the routine blocks on its first request
ReceiveAscii ==
    /\ pc = "idle"
    /\ UNCHANGED <<threads, callVars>>
    /\ \E args \in AsciiArgs :
        /\ entry' = "/ascii"
        /\ request' = args
        /\ LET city_param == Strip(Get(args, "city", <<>>))
               m == Lower(Get(args, "mode", <<"c","u","r","r","e","n","t">>))
               checked == IF city_param # <<>> THEN validate_city(city_param)
                          ELSE Valid(London)
           IN  /\ mode' = m
               /\ IF ~checked.ok
                  THEN /\ UNCHANGED <<city, days>>
                       /\ Reject(invalid_input(checked.msg))
                  ELSE IF m \notin {<<"c","u","r","r","e","n","t">>, <<"f","o","r","e","c","a","s","t">>}
                  THEN /\ city' = checked.value
                       /\ UNCHANGED days
                       /\ Reject(invalid_input("Mode must be 'current' or 'forecast'"))
                  ELSE /\ city' = checked.value
                       /\ days' = IF m = <<"f","o","r","e","c","a","s","t">> THEN 5 ELSE days
                       /\ old_stdout' = sys_stdout
                       /\ sys_stdout' = "buffer"
                       /\ pc' = "resolving"
                       /\ geoCalls' = geoCalls + 1
                       /\ UNCHANGED <<wxCalls, geo, coords, raw, locals,
                                      is_night, result, response, buffer,
                                      console>>

\* WeatherService.get_current_weather(c), called directly
CallGetCurrentWeather ==
    /\ pc = "idle"
    /\ UNCHANGED <<threads, callVars>>
    /\ \E c \in ServiceCities :
        /\ entry' = "get_current_weather"
        /\ request' = [city |-> c]
        /\ city' = c
        /\ UNCHANGED <<days, mode>>
        /\ EnterService("get_current_weather", c, mode, days)
        /\ IF get_coordinates_rejects(c) THEN TRUE ELSE UNCHANGED sys_stdout

\* WeatherService.get_forecast(c, d), called directly
CallGetForecast ==
    /\ pc = "idle"
    /\ UNCHANGED <<threads, callVars>>
    /\ \E c \in ServiceCities, d \in ServiceDays :
        /\ entry' = "get_forecast"
        /\ request' = [city |-> c, days |-> d]
        /\ city' = c
        /\ days' = d
        /\ UNCHANGED mode
        /\ EnterService("get_forecast", c, mode, d)
        /\ IF get_coordinates_rejects(c) THEN TRUE ELSE UNCHANGED sys_stdout

\* the caller going on with an {error} from get_coordinates
resolver_failed_only_raised(co) == co.raised

\* `if "error" in coords: return coords`, and an exception of
\* get_coordinates, which leaves the caller as well
resolver_failed(co) == co.raised \/ "error" \in DOMAIN co.value

\* the geocoding request returns: the rest of get_coordinates, then the
\* caller up to its next request
GeoReturns ==
    /\ pc = "resolving"
    /\ UNCHANGED <<threads, callVars>>
    /\ \E outcome \in GeoOutcomes :
        /\ UNCHANGED <<entry, city, days, mode, request, geoCalls, old_stdout,
                       locals>>
        /\ geo' = _make_request(outcome)
        /\ LET co == get_coordinates(city, _make_request(outcome)) IN
           /\ coords' = co
           /\ IF resolver_failed(co)
              THEN /\ Complete(entry, city, mode, days, co)
                   /\ UNCHANGED <<wxCalls, raw>>
              ELSE IF IsForecast /\ days_out_of_range(days)
              THEN /\ Complete(entry, city, mode, days,
                               Returned([error |-> <<"Days must be between 1 and 7">>]))
                   /\ UNCHANGED <<wxCalls, raw>>
              ELSE /\ pc' = "fetching"
                   /\ wxCalls' = wxCalls + 1
                   /\ UNCHANGED <<raw, is_night, result, response, sys_stdout,
                                  buffer, console>>

\* the forecast request returns: normalisation, then the caller to its end
WxReturns ==
    /\ pc = "fetching"
    /\ UNCHANGED <<threads, callVars>>
    /\ \E outcome \in IF IsForecast THEN DailyOutcomes ELSE CurrentOutcomes :
        /\ UNCHANGED <<entry, city, days, mode, request, geoCalls, wxCalls, geo,
                       coords, old_stdout>>
        /\ LET data == _make_request(outcome) IN
           /\ raw' = data
           /\ locals' = locals_after(IsForecast, days, data, locals)
           /\ Complete(entry, city, mode, days,
                       IF IsForecast THEN get_forecast(coords.value, days, data)
                       ELSE get_current_weather(coords.value, data))

Next ==
    \/ ReceiveWeather
    \/ ReceiveForecast
    \/ ReceiveAscii
    \/ CallGetCurrentWeather
    \/ CallGetForecast
    \/ GeoReturns
    \/ WxReturns

Spec == Init /\ [][Next]_vars


---------------------------------------------------------------------------
(* create_temp_bar called on its own, with the default range *)

\* the temperatures tried are -MaxTemp .. MaxTemp, in whole degrees
MaxTemp == 100

Temps == (0 - MaxTemp)..MaxTemp

\* self.create_temp_bar(temp)
CallCreateTempBar ==
    \E temp \in Temps :
        /\ bar_temp' = temp
        /\ temp_bar' = create_temp_bar(temp)
        /\ UNCHANGED <<requestVars, sys_stdout, console, threads, graph_call,
                       line_graph>>

BarSpec == Init /\ [][CallCreateTempBar]_vars

---------------------------------------------------------------------------
(* /ascii requests served at the same time by threads of one process: each
   runs get_ascii_output from line 139 on; sys.stdout is the one object of
   the process, and print looks it up at each call *)

\* at most MaxRequests requests are served at the same time
MaxRequests == 2

\* the io.StringIO the request t creates, as a value of sys_stdout
StringIO(t) == ToString(t)

\* what the two collaborators answer to a request: no match; a match and
\* one forecast day; a match and a daily object without precipitation_sum
OneDay == <<[code |-> 0, precip |-> 0, wind |-> 5]>>

ConcurrentOutcomes ==
    {[geo |-> Body([results |-> List(<<>>)]), wx |-> Failed("timeout")],
     [geo |-> Body([results |-> List(<<TheLocation>>)]),
      wx |-> Body([daily |-> FullDaily(OneDay)])],
     [geo |-> Body([results |-> List(<<TheLocation>>)]),
      wx |-> Body([daily |-> Without(FullDaily(OneDay), {"precipitation_sum"})])]}

\* get_current_weather(c) or get_forecast(c, 5), both requests answered
service_call(m, c, outcome) ==
    LET co == get_coordinates(c, _make_request(outcome.geo))
    IN  IF resolver_failed(co) THEN co
        ELSE IF m = <<"f","o","r","e","c","a","s","t">>
        THEN get_forecast(co.value, 5, _make_request(outcome.wx))
        ELSE get_current_weather(co.value, _make_request(outcome.wx))

\* a request passed validation and stands before line 139
AsciiArrives ==
    /\ Len(threads) < MaxRequests
    /\ \E m \in {<<"c","u","r","r","e","n","t">>, <<"f","o","r","e","c","a","s","t">>} :
        threads' = Append(threads,
            [pc |-> "save", city |-> London, mode |-> m,
             old_stdout |-> "unbound", buffer |-> <<>>, todo |-> <<>>,
             rendered |-> <<>>, raised |-> FALSE, response |-> Unset])
    /\ UNCHANGED <<requestVars, callVars, sys_stdout, console>>

\* old_stdout = sys.stdout
SaveStdout ==
    \E t \in DOMAIN threads :
        /\ threads[t].pc = "save"
        /\ threads' = [threads EXCEPT ![t].old_stdout = sys_stdout,
                                      ![t].pc = "install"]
        /\ UNCHANGED <<requestVars, callVars, sys_stdout, console>>

\* sys.stdout = buffer = io.StringIO()
InstallBuffer ==
    \E t \in DOMAIN threads :
        /\ threads[t].pc = "install"
        /\ sys_stdout' = StringIO(t)
        /\ threads' = [threads EXCEPT ![t].pc = "call"]
        /\ UNCHANGED <<requestVars, callVars, console>>

\* the display routine calls the WeatherService method; what it then has
\* to print, and whether an exception ends it, is settled
ServiceAnswers ==
    \E t \in DOMAIN threads :
        /\ threads[t].pc = "call"
        /\ \E outcome \in ConcurrentOutcomes, night \in NightFlags :
            LET disp == display(threads[t].mode, 5,
                                service_call(threads[t].mode, threads[t].city,
                                             outcome),
                                night)
            IN  threads' = [threads EXCEPT ![t].todo = disp.lines,
                                           ![t].rendered = disp.lines,
                                           ![t].raised = disp.raised,
                                           ![t].pc = "print"]
        /\ UNCHANGED <<requestVars, callVars, sys_stdout, console>>

\* one print call: the line goes to the object sys.stdout names now
PrintLine ==
    \E t \in DOMAIN threads :
        /\ threads[t].pc = "print"
        /\ threads[t].todo # <<>>
        /\ LET line == Head(threads[t].todo)
               rest == [threads EXCEPT ![t].todo = Tail(@)]
           IN  IF sys_stdout = "console"
               THEN /\ console' = Append(console, line)
                    /\ threads' = rest
               ELSE /\ console' = console
                    /\ threads' =
                        [u \in DOMAIN threads |->
                            IF StringIO(u) = sys_stdout
                            THEN [rest[u] EXCEPT !.buffer = Append(@, line)]
                            ELSE rest[u]]
        /\ UNCHANGED <<requestVars, callVars, sys_stdout>>

\* the display routine is over: an exception of it goes to handle_errors;
\* otherwise buffer.getvalue() is tested and the response built
EndDisplay ==
    \E t \in DOMAIN threads :
        /\ threads[t].pc = "print"
        /\ threads[t].todo = <<>>
        /\ threads' =
            [threads EXCEPT
                ![t].response =
                    ascii_response(threads[t].city, threads[t].mode,
                                   [raised |-> threads[t].raised],
                                   threads[t].buffer),
                ![t].pc = "finally"]
        /\ UNCHANGED <<requestVars, callVars, sys_stdout, console>>

\* finally: sys.stdout = old_stdout
RestoreStdout ==
    \E t \in DOMAIN threads :
        /\ threads[t].pc = "finally"
        /\ sys_stdout' = threads[t].old_stdout
        /\ threads' = [threads EXCEPT ![t].pc = "done"]
        /\ UNCHANGED <<requestVars, callVars, console>>

ConcNext ==
    \/ AsciiArrives
    \/ SaveStdout
    \/ InstallBuffer
    \/ ServiceAnswers
    \/ PrintLine
    \/ EndDisplay
    \/ RestoreStdout

ConcSpec == Init /\ [][ConcNext]_vars

---------------------------------------------------------------------------
(* create_line_graph called on its own *)

\* the series tried hold 0 .. MaxSamples whole values in 0 .. MaxValue, and
\* the heights tried are 2 .. MaxHeight
MaxSamples == 3
MaxValue == 4
MaxHeight == 10

Series == UNION {[1..n -> 0..MaxValue] : n \in 0..MaxSamples}

Heights == 2..MaxHeight

\* as many labels as samples, or one label short
LabelLists(data) ==
    {[i \in 1..n |-> strftime_md(IsoDate(i))] :
        n \in {Len(data)} \cup (IF Len(data) > 0 THEN {Len(data) - 1} ELSE {})}

\* TerminalGraph.create_line_graph(data, labels, title, height, unit)
CallCreateLineGraph ==
    /\ line_graph = Unset
    /\ \E data \in Series, height \in Heights :
        \E labels \in LabelLists(data) :
            /\ graph_call' = [data |-> data, labels |-> labels,
                              title |-> "Trend", height |-> height,
                              unit |-> "mm"]
            /\ line_graph' = create_line_graph(data, labels, "Trend", height, "mm")
    /\ UNCHANGED <<requestVars, sys_stdout, console, threads, bar_temp,
                   temp_bar>>

GraphSpec == Init /\ [][CallCreateLineGraph]_vars
---------------------------------------------------------------------------
(* Properties *)

Done == pc = "done"

\* the WeatherService method returned a value that is no {error: ...}
Succeeded ==
    /\ Done
    /\ "raised" \in DOMAIN result
    /\ ~result.raised
    /\ "error" \notin DOMAIN result.value

CurrentSucceeded == Succeeded /\ ~IsForecast

ForecastSucceeded == Succeeded /\ IsForecast

GeoAnswered == "is_none" \in DOMAIN geo

WxAnswered == "is_none" \in DOMAIN raw

\* the resolver answered with zero matches
CityNotFound ==
    /\ GeoAnswered
    /\ ~NotData(geo)
    /\ \/ "results" \notin DOMAIN geo.value
       \/ Len(geo.value.results.items) = 0

\* a request to a collaborator failed, timed out, or its body was empty or
\* lacked the object asked for
ResolverUnavailable == GeoAnswered /\ NotData(geo)

ForecastUnavailable ==
    /\ WxAnswered
    /\ \/ NotData(raw)
       \/ (IF IsForecast THEN "daily" ELSE "current") \notin DOMAIN raw.value

UpstreamUnavailable == ResolverUnavailable \/ ForecastUnavailable

HasCanonicalWeather(obj) ==
    {"code", "description", "condition"} \subseteq DOMAIN obj.weather

HasLegacyWeather(obj) ==
    /\ isinstance_list(obj.weather)
    /\ Len(obj.weather.items) = 1
    /\ {"main", "description"} \subseteq DOMAIN obj.weather.items[1]

\* C1: every successful result of get_current_weather, and every item of a
\* successful get_forecast result, holds the canonical weather object
\* {code, description, condition} and the legacy weather list
\* [{main, description}] at once (and, for a forecast item, the canonical
\* wind {speed, direction} with the legacy wind {speed}).
C1_BothShapes ==
    /\ CurrentSucceeded =>
          /\ HasCanonicalWeather(result.value)
          /\ HasLegacyWeather(result.value)
    /\ ForecastSucceeded =>
          \A i \in DOMAIN result.value.forecast.items :
             LET item == result.value.forecast.items[i] IN
             /\ HasCanonicalWeather(item)
             /\ HasLegacyWeather(item)
             /\ {"speed", "direction"} \subseteq DOMAIN item.wind

\* C2: in every successful get_current_weather result the canonical and the
\* legacy view carry equal values: current.temperature = main.temp,
\* current.feels_like = main.feels_like, current.humidity = main.humidity,
\* current.pressure = main.pressure, current.wind_speed = wind.speed and
\* current.wind_direction = wind.deg.
C2_CrossShapeEqual ==
    CurrentSucceeded =>
        LET v == result.value IN
        /\ v.current.temperature = v.main.temp
        /\ v.current.feels_like = v.main.feels_like
        /\ v.current.humidity = v.main.humidity
        /\ v.current.pressure = v.main.pressure
        /\ v.current.wind_speed = v.wind.speed
        /\ v.current.wind_direction = v.wind.deg

\* a successful /weather result whose reading has a temperature and lacks
\* its wind direction
C2_Witness ==
    /\ CurrentSucceeded
    /\ entry = "/weather"
    /\ result.value.main.temp = 21
    /\ result.value.current.temperature = 21
    /\ result.value.wind.deg = NoneValue

\* the upstream daily object holds its days: every array is there
HoldsDays ==
    /\ WxAnswered
    /\ ~NotData(raw)
    /\ "daily" \in DOMAIN raw.value
    /\ DailyKeys \subseteq DOMAIN raw.value.daily

\* C3: for a requested day count d in 1..7 and an upstream daily object
\* holding a days, get_forecast succeeds with exactly min(d, a) items, in
\* upstream order, and the 'forecast' and 'list' sequences are the same.
C3_ForecastClipped ==
    (Done /\ IsForecast /\ HoldsDays) =>
        LET daily == raw.value.daily
            a == Len(daily.time.items)
        IN  /\ days \in 1..7
            /\ Succeeded
            /\ Len(result.value.forecast.items) = (IF days <= a THEN days ELSE a)
            /\ \A i \in DOMAIN result.value.forecast.items :
                  LET item == result.value.forecast.items[i] IN
                  /\ item.date = daily.time.items[i]
                  /\ item.temperature.max = daily.temperature_2m_max.items[i]
                  /\ item.temperature.min = daily.temperature_2m_min.items[i]
                  /\ item.precipitation = daily.precipitation_sum.items[i]
            /\ result.value.list = result.value.forecast

\* seven days asked for, three held upstream, three returned
C3_Witness ==
    /\ Done /\ IsForecast /\ HoldsDays
    /\ days = 7
    /\ Len(raw.value.daily.time.items) = 3
    /\ Succeeded
    /\ Len(result.value.forecast.items) = 3

DocumentedCategory(c) ==
    CASE c \in {0, 1} -> <<"c","l","e","a","r">>
      [] c \in {2, 3} -> <<"c","l","o","u","d","y">>
      [] c \in {45, 48} -> <<"f","o","g">>
      [] c \in {51, 53, 55, 56, 57, 61, 63, 65, 66, 67, 80, 81, 82} -> <<"r","a","i","n">>
      [] c \in {71, 73, 75, 77, 85, 86} -> <<"s","n","o","w">>
      [] c \in {95, 96, 99} -> <<"s","t","o","r","m">>
      [] OTHER -> <<"u","n","k","n","o","w","n">>

DocumentedDescriptions ==
    <<
       <<0, <<"C","l","e","a","r"," ","s","k","y">>>>,
       <<1, <<"M","a","i","n","l","y"," ","c","l","e","a","r">>>>,
       <<2, <<"P","a","r","t","l","y"," ","c","l","o","u","d","y">>>>,
       <<3, <<"O","v","e","r","c","a","s","t">>>>,
       <<45, <<"F","o","g">>>>,
       <<48, <<"D","e","p","o","s","i","t","i","n","g"," ","r","i","m","e"," ","f","o","g">>>>,
       <<51, <<"L","i","g","h","t"," ","d","r","i","z","z","l","e">>>>,
       <<53, <<"M","o","d","e","r","a","t","e"," ","d","r","i","z","z","l","e">>>>,
       <<55, <<"D","e","n","s","e"," ","d","r","i","z","z","l","e">>>>,
       <<56, <<"L","i","g","h","t"," ","f","r","e","e","z","i","n","g"," ","d","r","i","z","z","l","e">>>>,
       <<57, <<"D","e","n","s","e"," ","f","r","e","e","z","i","n","g"," ","d","r","i","z","z","l","e">>>>,
       <<61, <<"S","l","i","g","h","t"," ","r","a","i","n">>>>,
       <<63, <<"M","o","d","e","r","a","t","e"," ","r","a","i","n">>>>,
       <<65, <<"H","e","a","v","y"," ","r","a","i","n">>>>,
       <<66, <<"L","i","g","h","t"," ","f","r","e","e","z","i","n","g"," ","r","a","i","n">>>>,
       <<67, <<"H","e","a","v","y"," ","f","r","e","e","z","i","n","g"," ","r","a","i","n">>>>,
       <<71, <<"S","l","i","g","h","t"," ","s","n","o","w"," ","f","a","l","l">>>>,
       <<73, <<"M","o","d","e","r","a","t","e"," ","s","n","o","w"," ","f","a","l","l">>>>,
       <<75, <<"H","e","a","v","y"," ","s","n","o","w"," ","f","a","l","l">>>>,
       <<77, <<"S","n","o","w"," ","g","r","a","i","n","s">>>>,
       <<80, <<"S","l","i","g","h","t"," ","r","a","i","n"," ","s","h","o","w","e","r","s">>>>,
       <<81, <<"M","o","d","e","r","a","t","e"," ","r","a","i","n"," ","s","h","o","w","e","r","s">>>>,
       <<82, <<"V","i","o","l","e","n","t"," ","r","a","i","n"," ","s","h","o","w","e","r","s">>>>,
       <<85, <<"S","l","i","g","h","t"," ","s","n","o","w"," ","s","h","o","w","e","r","s">>>>,
       <<86, <<"H","e","a","v","y"," ","s","n","o","w"," ","s","h","o","w","e","r","s">>>>,
       <<95, <<"T","h","u","n","d","e","r","s","t","o","r","m">>>>,
       <<96, <<"T","h","u","n","d","e","r","s","t","o","r","m"," ","w","i","t","h"," ","s","l","i","g","h","t"," ","h","a","i","l">>>>,
       <<99, <<"T","h","u","n","d","e","r","s","t","o","r","m"," ","w","i","t","h"," ","h","e","a","v","y"," ","h","a","i","l">>>>
    >>

DocumentedDescription(c) ==
    IF \E i \in DOMAIN DocumentedDescriptions : DocumentedDescriptions[i][1] = c
    THEN DocumentedDescriptions[
            CHOOSE i \in DOMAIN DocumentedDescriptions :
                DocumentedDescriptions[i][1] = c][2]
    ELSE <<"U","n","k","n","o","w","n">>

Mapped == "weather_code" \in DOMAIN locals

\* C4: WeatherCodeMapper is total: for a code of the table it gives the
\* documented description and category, and for any other integer it gives
\* ("Unknown", unknown).
C4_MapperTotal ==
    Mapped =>
        /\ locals.description = DocumentedDescription(locals.weather_code)
        /\ locals.condition = DocumentedCategory(locals.weather_code)

\* a code below the table was mapped to ("Unknown", unknown)
C4_Witness ==
    /\ Mapped
    /\ locals.weather_code = 0 - 1
    /\ locals.description = <<"U","n","k","n","o","w","n">>
    /\ locals.condition = <<"u","n","k","n","o","w","n">>

Responded == "status" \in DOMAIN response

\* C5: on /weather and /forecast an unavailable upstream is reported with a
\* 5xx status and a city that was not found with a 4xx status.
C5_UnavailableIs5xx ==
    (Done /\ entry \in {"/weather", "/forecast"} /\ Responded) =>
        /\ UpstreamUnavailable => response.status \in 500..599
        /\ CityNotFound => response.status \in 400..499

\* C6: /ascii answers 200 with rendered text only when normalisation
\* succeeded; when the city is not found or the upstream is unavailable the
\* response is a flat {error} object with a non-success status.
C6_AsciiAllOrNothing ==
    (Done /\ entry = "/ascii" /\ Responded) =>
        /\ response.status = 200 => Succeeded
        /\ (CityNotFound \/ UpstreamUnavailable) =>
              /\ response.status # 200
              /\ DOMAIN response.body = {"error"}

\* the city of a request is given, and its trimmed length is 1 or over 100
BadCity(c) == Strip(c) # <<>> /\ (Len(Strip(c)) < 2 \/ Len(Strip(c)) > 100)

BadDaysText(s) ==
    ~ParseInt(s).ok \/ ParseInt(s).value < 1 \/ ParseInt(s).value > 7

\* the request carries an invalid parameter
InvalidRequest ==
    CASE entry = "/weather" -> BadCity(Get(request, "city", <<>>))
      [] entry = "/forecast" ->
            \/ BadCity(Get(request, "city", <<>>))
            \/ BadDaysText(Get(request, "days", <<"5">>))
      [] entry = "/ascii" ->
            \/ BadCity(Get(request, "city", <<>>))
            \/ Lower(Get(request, "mode", <<"c","u","r","r","e","n","t">>))
                    \notin {<<"c","u","r","r","e","n","t">>, <<"f","o","r","e","c","a","s","t">>}
      [] entry = "get_forecast" ->
            \/ BadCity(request.city)
            \/ request.days < 1 \/ request.days > 7
      [] OTHER -> FALSE

\* the request ended in InvalidInput: the 400 of handle_errors, or the
\* {error} a direct call returns
EndedInvalidInput ==
    IF entry = "get_forecast"
    THEN "raised" \in DOMAIN result /\ ~result.raised
         /\ "error" \in DOMAIN result.value
    ELSE Responded /\ response.status = 400

\* C7: a request with an invalid parameter ends in InvalidInput without a
\* call to the resolver or to the forecast client, through an HTTP handler
\* as through WeatherService.get_forecast(city, days); city "" with days
\* "10" falls back to the default city and is refused with a message that
\* names the 1-7 bound.
C7_InvalidNeverCalls ==
    /\ InvalidRequest =>
          /\ geoCalls = 0
          /\ wxCalls = 0
          /\ Done
          /\ EndedInvalidInput
    /\ (entry = "/forecast" /\ request = [city |-> <<>>, days |-> <<"1","0">>]) =>
          /\ Done
          /\ city = London
          /\ response =
                invalid_input("Days must be a valid number between 1 and 7")

ResolverOk ==
    /\ "raised" \in DOMAIN coords
    /\ ~coords.raised
    /\ {"lat", "lon", "name"} \subseteq DOMAIN coords.value

\* C8: in one request the resolver is called at most once, the forecast
\* client at most once and only after the resolver returned coordinates,
\* and a resolver failure (not found, unavailable) is at once the result of
\* the request, with no call to the forecast client.
C8_CallOrder ==
    /\ geoCalls \in {0, 1}
    /\ wxCalls \in {0, 1}
    /\ pc = "resolving" => geoCalls = 1 /\ wxCalls = 0 /\ ~GeoAnswered
    /\ wxCalls = 1 => geoCalls = 1 /\ GeoAnswered /\ ResolverOk
    /\ (CityNotFound \/ ResolverUnavailable) =>
          /\ Done
          /\ wxCalls = 0
          /\ ~WxAnswered
          /\ result = coords
          /\ DOMAIN result.value = {"error"}

\* the resolver timed out or failed, and the request is over with its error
C8_Witness ==
    /\ Done
    /\ GeoAnswered
    /\ geo.is_none
    /\ geoCalls = 1
    /\ wxCalls = 0
    /\ DOMAIN result.value = {"error"}

\* C9: when the precipitation field is absent from the raw data the
\* normalisation succeeds with precipitation 0, for the current reading and
\* for each day of the daily aggregate.
C9_PrecipitationDefaults ==
    /\ (/\ Done /\ ~IsForecast /\ WxAnswered /\ ~NotData(raw)
        /\ "current" \in DOMAIN raw.value
        /\ "precipitation" \notin DOMAIN raw.value.current) =>
          /\ Succeeded
          /\ result.value.current.precipitation = 0
    /\ (/\ Done /\ IsForecast /\ WxAnswered /\ ~NotData(raw)
        /\ "daily" \in DOMAIN raw.value
        /\ "time" \in DOMAIN raw.value.daily
        /\ "precipitation_sum" \notin DOMAIN raw.value.daily) =>
          /\ Succeeded
          /\ Len(result.value.forecast.items) =
                (IF days <= Len(raw.value.daily.time.items) THEN days
                 ELSE Len(raw.value.daily.time.items))
          /\ \A i \in DOMAIN result.value.forecast.items :
                result.value.forecast.items[i].precipitation = 0

FixedGlyph(category) ==
    CASE category = <<"c","l","e","a","r">> -> WeatherArt.SUNNY
      [] category = <<"c","l","o","u","d","y">> -> WeatherArt.CLOUDY
      [] category = <<"r","a","i","n">> -> WeatherArt.RAINY
      [] category = <<"s","t","o","r","m">> -> WeatherArt.STORMY
      [] category = <<"s","n","o","w">> -> WeatherArt.SNOWY
      [] category = <<"f","o","g">> -> WeatherArt.FOGGY
      [] category = <<"u","n","k","n","o","w","n">> -> WeatherArt.CLOUDY

\* the glyphs the display printed
PrintedArt == {buffer[i].art : i \in {j \in DOMAIN buffer : buffer[j].kind = "art"}}

CurrentDisplayed ==
    Done /\ entry = "/ascii" /\ mode = <<"c","u","r","r","e","n","t">> /\ Succeeded /\ Mapped

\* C10: the glyph of the current-weather display is the night glyph exactly
\* when the code's category is clear and is_night holds, and otherwise the
\* fixed glyph of the category, whatever is_night; for code 0 by day it is
\* the sunny art and the legacy weather[0].main is "Clear".
C10_GlyphChoice ==
    CurrentDisplayed =>
        LET c == locals.weather_code
            category == DocumentedCategory(c)
        IN  /\ PrintedArt =
                  {IF category = <<"c","l","e","a","r">> /\ is_night THEN WeatherArt.NIGHT
                   ELSE FixedGlyph(category)}
            /\ (PrintedArt = {WeatherArt.NIGHT}) <=> (category = <<"c","l","e","a","r">> /\ is_night)
            /\ (c = 0 /\ ~is_night) =>
                  /\ PrintedArt = {WeatherArt.SUNNY}
                  /\ result.value.weather.items[1].main = <<"C","l","e","a","r">>

\* a clear code shown at night
C10_Witness ==
    /\ CurrentDisplayed
    /\ is_night
    /\ locals.weather_code = 1
    /\ PrintedArt = {WeatherArt.NIGHT}


---------------------------------------------------------------------------
(* The temperature bar *)

BarReturned == temp_bar # Unset /\ ~temp_bar.raised

MarkerCells(cells) == {k \in 1..Len(cells) : cells[k] = "marker"}

\* the index (from 0) of the first marker cell, -1 when there is none
MarkerPos(cells) ==
    IF MarkerCells(cells) = {} THEN 0 - 1
    ELSE (CHOOSE k \in MarkerCells(cells) : \A j \in MarkerCells(cells) : k <= j) - 1

FillGlyphs == {"dense", "medium", "light"}

BarShape ==
    BarReturned =>
        LET cells == temp_bar.value.bar
            pos == MarkerPos(cells)
        IN  /\ Len(cells) = 50
            /\ Cardinality(MarkerCells(cells)) = 1
            /\ bar_temp < 0 - 20 => pos = 0
            /\ bar_temp > 50 => pos = 49
            /\ \A k \in 1..Len(cells) :
                /\ k - 1 < pos => cells[k] \in FillGlyphs
                /\ k - 1 > pos => cells[k] = "."

BarMonotonic ==
    (BarReturned /\ BarReturned' /\ bar_temp <= bar_temp')
        => MarkerPos(temp_bar.value.bar) <= MarkerPos(temp_bar.value.bar)'

\* C11: every bar create_temp_bar returns has exactly 50 interior cells with
\* exactly one marker, fill glyphs left of the marker and the placeholder
\* right of it; a temp below -20 puts the marker in cell 0 and a temp above
\* 50 in cell 49; and of two calls in a row the one with the higher temp
\* never has its marker further left.
C11_TempBar == [](BarShape) /\ [][BarMonotonic]_vars

\* a bar for a temp inside the range, with cells on both sides of the marker
C11_Witness ==
    /\ BarReturned
    /\ bar_temp = 21
    /\ MarkerPos(temp_bar.value.bar) = 28
    /\ temp_bar.value.bar[28] = "light"
    /\ temp_bar.value.bar[30] = "."

\* C12: the marker is in the cell nearest to the scaled temperature
\* (temp + 20) / 70 * 49, clamped to 0 .. 49.
C12_RoundedPosition ==
    BarReturned =>
        LET pos == MarkerPos(temp_bar.value.bar)
            off == 70 * pos - 49 * (bar_temp + 20)
        IN  IF bar_temp < 0 - 20 THEN pos = 0
            ELSE IF bar_temp > 50 THEN pos = 49
            ELSE 2 * (IF off < 0 THEN 0 - off ELSE off) <= 70

---------------------------------------------------------------------------
(* The graph sections of the forecast display *)

\* /ascii in forecast mode answered with the text of display_forecast
ForecastDisplayed ==
    /\ ForecastSucceeded
    /\ entry = "/ascii"
    /\ response.status = 200

\* the days display_forecast went through
DisplayedDays == result.value.forecast.items

\* the titles of the graph sections in the text returned
GraphTitles ==
    LET ascii == response.body.ascii
    IN  {ascii[k].title : k \in {j \in DOMAIN ascii : ascii[j].kind = "graph"}}

\* C13: with at least 2 forecast days the text of the forecast display has
\* the max- and min-temperature graph sections, the precipitation section
\* exactly when some day has precipitation > 0 and the wind-speed section
\* exactly when some day has wind speed > 0; with fewer than 2 days it has
\* no graph section.
C13_GraphSections ==
    ForecastDisplayed =>
        IF Len(DisplayedDays) >= 2
        THEN /\ "Max Temperature Trend" \in GraphTitles
             /\ "Min Temperature Trend" \in GraphTitles
             /\ "Precipitation Trend" \in GraphTitles
                    <=> \E i \in DOMAIN DisplayedDays :
                            DisplayedDays[i].precipitation > 0
             /\ "Wind Speed Trend" \in GraphTitles
                    <=> \E i \in DOMAIN DisplayedDays :
                            DisplayedDays[i].wind.speed > 0
        ELSE GraphTitles = {}

\* a forecast of dry days, one of them windy: no precipitation section
C13_Witness ==
    /\ ForecastDisplayed
    /\ Len(DisplayedDays) >= 2
    /\ \A i \in DOMAIN DisplayedDays : DisplayedDays[i].precipitation = 0
    /\ \E i \in DOMAIN DisplayedDays : DisplayedDays[i].wind.speed > 0
    /\ \E i \in DOMAIN DisplayedDays : DisplayedDays[i].wind.speed = 0
    /\ GraphTitles =
        {"Max Temperature Trend", "Min Temperature Trend", "Wind Speed Trend"}

---------------------------------------------------------------------------
(* Requests served at the same time *)

AllCompleted ==
    /\ threads # <<>>
    /\ \A t \in DOMAIN threads : threads[t].pc = "done"

\* C14: the response of every /ascii request holds exactly the text its
\* own display routine printed, whatever the interleaving: nothing of
\* another request in it, nothing of its own missing.
C14_OwnOutputOnly ==
    \A t \in DOMAIN threads :
        (threads[t].pc = "done" /\ ~threads[t].raised)
            => threads[t].response =
                    Response(200, [city |-> threads[t].city,
                                   mode |-> threads[t].mode,
                                   ascii |-> threads[t].rendered])

\* C15: once every /ascii request that started has completed, sys.stdout
\* is the stream that was installed before the first of them began.
C15_StdoutRestored == AllCompleted => sys_stdout = "console"

---------------------------------------------------------------------------
(* The line graph *)

\* create_line_graph drew a graph
GraphDrawn == line_graph # Unset /\ ~line_graph.insufficient

\* the lines of the graph, top first, that have the point marker in column i
MarkerLines(i) ==
    {k \in DOMAIN line_graph.lines : line_graph.lines[k].cells[i] = "marker"}

\* C16: in a graph of at least 2 samples every sample is plotted: exactly
\* one of the `height` lines has the point marker in the sample's column.
C16_EverySamplePlotted ==
    GraphDrawn =>
        \A i \in DOMAIN graph_call.data : Cardinality(MarkerLines(i)) = 1

Abs(x) == IF x < 0 THEN 0 - x ELSE x

\* C17: in a graph of samples that are not all equal, the y-axis label of a
\* line agrees with the values plotted on it: the label (printed in tenths)
\* of a line with a sample's marker is within half a row step,
\* range / (height - 1) / 2, of the sample, up to the rounding of the
\* label; the top line is labelled with the highest value and the bottom
\* line with the lowest.
C17_LabelsMatchPlot ==
    (GraphDrawn /\ SeqMin(graph_call.data) # SeqMax(graph_call.data)) =>
        LET data == graph_call.data
            height == graph_call.height
            lines == line_graph.lines
            range == SeqMax(data) - SeqMin(data)
        IN  /\ lines[1].label = 10 * SeqMax(data)
            /\ lines[height].label = 10 * SeqMin(data)
            /\ \A i \in DOMAIN data : \A k \in MarkerLines(i) :
                2 * (height - 1) * Abs(lines[k].label - 10 * data[i])
                    <= 10 * range + (height - 1)
=============================================================================
